---- MODULE Spec2Model ----
(***************************************************************************)
(* Titanic Dataset Chat Agent: the FastAPI backend (backend/main.py), the  *)
(* agent core (backend/agent.py) and the Streamlit Remote-Mode UI          *)
(* (frontend/app.py) as one state machine.                                 *)
(*                                                                         *)
(*   Spec        the HTTP service: module start-up, then its thread pool   *)
(*               handling /health and /chat requests concurrently          *)
(*   SpecSerial  the same service driven by a client that sends one        *)
(*               request at a time                                         *)
(*   SpecClean   the pre-cleaning of a loaded table, over all small tables *)
(*   SpecUI      the Remote-Mode chat page                                 *)
(***************************************************************************)
EXTENDS Integers, Sequences, FiniteSets, TLC

VARIABLES
    groqKey,      \* os.environ["GROQ_API_KEY"]: None or Some(string)
    csvFile,      \* backend/data/titanic.csv on disk: None or Some(table)
    spc,          \* position of main.py's module-level start-up code
    startLog,     \* the start-up steps completed so far, in order
    df,           \* module global df: None before it is loaded, then Some(table)
    agent_executor, \* module global agent_executor: None or Some(..)
    healthResp,   \* body of the last /health response, None before any
    pc,           \* per worker thread: position in chat()/run_query()
    question,     \* per worker: request.question
    steps,        \* per worker: the run's intermediate_steps so far
    executed,     \* per worker: source of each snippet python_repl_ast ran
    drew,         \* per worker: whether this run's code drew a figure
    fault,        \* per worker: the exception the reasoning loop raised
    result,       \* per worker: agent.invoke()'s result dict
    response,     \* per worker: run_query's local response / return value
    capture,      \* per worker: how the figure capture went (none, ok, failed)
    rqCalls,      \* per worker: run_query invocations for this request
    resp,         \* per worker: the HTTP response of chat()
    figs,         \* matplotlib's process-global open figures, oldest first
    lastCall,     \* how the serial client's previous run_query call went
    messages,     \* st.session_state.messages
    lastOutcome   \* what the last submitted question's POST ended in

startVars == <<groqKey, csvFile, spc, startLog, df, agent_executor>>
workVars  == <<pc, question, steps, executed, drew, fault, result, response,
               capture, rqCalls, resp, figs, lastCall>>
uiVars    == <<messages, lastOutcome>>
vars      == <<startVars, healthResp, workVars, uiVars>>

(***************************************************************************)
(* Bounds of the model                                                     *)
(***************************************************************************)
NumWorkers == 2   \* worker threads modelled (the pool has more)
MaxSteps   == 2   \* agent steps modelled per run (the code allows 15)
MaxFigs    == 2   \* figures open at once
MaxRows    == 3   \* rows of a table in SpecClean
MaxTurns   == 2   \* questions submitted to the chat page before a clear

Workers == 1..NumWorkers

(***************************************************************************)
(* Optional values: Python's None, and pandas' NaN for a missing cell      *)
(***************************************************************************)
None == <<>>
Some(v) == <<v>>
Val(o) == o[1]

(***************************************************************************)
(* Dataset and pre-cleaning (main.py, lines 59-73)                         *)
(***************************************************************************)

\* Ages are even so that the mean of two of them is again an integer.
AgeValues  == {20, 30, 40}
PortValues == {"C", "Q", "S"}

Rows == [Age : {None} \cup {Some(a) : a \in AgeValues},
         Embarked : {None} \cup {Some(p) : p \in PortValues}]

TablesUpTo(n) ==
    [rows : UNION {[1..k -> Rows] : k \in 0..n}, cabin : BOOLEAN]

\* The non-missing cells of a column, in row order.
RECURSIVE Present(_)
Present(col) ==
    IF col = <<>> THEN <<>>
    ELSE IF Head(col) = None THEN Present(Tail(col))
    ELSE <<Val(Head(col))>> \o Present(Tail(col))

Column(rows, name) == [i \in 1..Len(rows) |-> rows[i][name]]

\* Variant: the lower of the two middle values for an even count.
MedianLower(col) ==
    LET s == SortSeq(Present(col), LAMBDA a, b : a < b)
        n == Len(s)
    IN  IF n = 0 THEN None ELSE Some(s[(n + 1) \div 2])

\* Series.median(): skips missing cells; the middle of the sorted values, the
\* mean of the two middle ones for an even count, NaN when none is present.
Median(col) ==
    LET s == SortSeq(Present(col), LAMBDA a, b : a < b)
        n == Len(s)
    IN  IF n = 0 THEN None
        ELSE IF n % 2 = 1 THEN Some(s[(n + 1) \div 2])
        ELSE Some((s[n \div 2] + s[n \div 2 + 1]) \div 2)

Count(col, v) == Cardinality({i \in 1..Len(col) : col[i] = Some(v)})

\* Series.mode(): the most frequent present values, sorted ascending (empty
\* when every cell is missing).
Mode(col) ==
    LET p    == Present(col)
        vals == {p[i] : i \in 1..Len(p)}
        best == {v \in vals : \A w \in vals : Count(col, v) >= Count(col, w)}
    IN  SelectSeq(<<"C", "Q", "S">>, LAMBDA v : v \in best)

\* Series.fillna(value): a NaN value fills nothing.
FillNa(col, value) ==
    [i \in 1..Len(col) |-> IF col[i] = None /\ value # None THEN value ELSE col[i]]

SetColumn(rows, name, col) == [i \in 1..Len(rows) |-> [rows[i] EXCEPT ![name] = col[i]]]

\* df["Age"] = df["Age"].fillna(df["Age"].median())
FilledAge(d) ==
    LET col == Column(d.rows, "Age")
    IN  [d EXCEPT !.rows = SetColumn(d.rows, "Age", FillNa(col, Median(col)))]

\* df["Embarked"] = df["Embarked"].fillna(df["Embarked"].mode()[0])
FilledEmbarked(d) ==
    LET col == Column(d.rows, "Embarked")
    IN  [d EXCEPT !.rows = SetColumn(d.rows, "Embarked", FillNa(col, Some(Mode(col)[1])))]

\* if "Cabin" in df.columns: df = df.drop(columns=["Cabin"])
DroppedCabin(d) == IF d.cabin THEN [d EXCEPT !.cabin = FALSE] ELSE d

(***************************************************************************)
(* Start-up: main.py's module-level code, run once when the module is      *)
(* imported; an exception there ends the process before it serves.        *)
(***************************************************************************)
\* Variant: only an unset variable counts as missing (os.getenv(..) is None).
KeyUnset(k) == k = None

\* not os.getenv("GROQ_API_KEY"): unset, or set to the empty string.
KeyMissing(k) == k = None \/ Val(k) = ""

CheckKey ==
    /\ spc = "check_key"
    /\ IF KeyMissing(groqKey)
       THEN spc' = "failed" /\ UNCHANGED startLog
       ELSE spc' = "read_csv" /\ startLog' = Append(startLog, "key")
    /\ UNCHANGED <<groqKey, csvFile, df, agent_executor, healthResp, workVars, uiVars>>

ReadCsv ==
    /\ spc = "read_csv"
    /\ IF csvFile = None
       THEN spc' = "failed" /\ UNCHANGED <<df, startLog>>
       ELSE spc' = "fill_age" /\ df' = csvFile /\ startLog' = Append(startLog, "load")
    /\ UNCHANGED <<groqKey, csvFile, agent_executor, healthResp, workVars, uiVars>>

FillAge ==
    /\ spc = "fill_age"
    /\ df' = Some(FilledAge(Val(df)))
    /\ spc' = "fill_embarked"
    /\ startLog' = Append(startLog, "age")
    /\ UNCHANGED <<groqKey, csvFile, agent_executor, healthResp, workVars, uiVars>>

\* mode()[0] raises when mode() is empty.
FillEmbarked ==
    /\ spc = "fill_embarked"
    /\ IF Mode(Column(Val(df).rows, "Embarked")) = <<>>
       THEN spc' = "failed" /\ UNCHANGED <<df, startLog>>
       ELSE /\ df' = Some(FilledEmbarked(Val(df)))
            /\ spc' = "drop_cabin"
            /\ startLog' = Append(startLog, "embarked")
    /\ UNCHANGED <<groqKey, csvFile, agent_executor, healthResp, workVars, uiVars>>

DropCabin ==
    /\ spc = "drop_cabin"
    /\ df' = Some(DroppedCabin(Val(df)))
    /\ spc' = "create_agent"
    /\ startLog' = Append(startLog, "cabin")
    /\ UNCHANGED <<groqKey, csvFile, agent_executor, healthResp, workVars, uiVars>>

\* create_agent(df): builds the LLM client and the agent; raises when the
\* client cannot be configured.
CreateAgent ==
    /\ spc = "create_agent"
    /\ \/ /\ agent_executor' = Some([df |-> Val(df), max_iterations |-> 15])
          /\ spc' = "serving"
          /\ startLog' = Append(startLog, "agent")
       \/ /\ spc' = "failed"
          /\ UNCHANGED <<agent_executor, startLog>>
    /\ UNCHANGED <<groqKey, csvFile, df, healthResp, workVars, uiVars>>

(***************************************************************************)
(* GET /health (main.py, lines 82-89)                                      *)
(***************************************************************************)
Columns(d) == <<"Age", "Embarked">> \o (IF d.cabin THEN <<"Cabin">> ELSE <<>>)

health_check ==
    /\ spc = "serving"
    /\ healthResp' = Some([status |-> "healthy",
                           dataset_rows |-> Len(Val(df).rows),
                           dataset_columns |-> Columns(Val(df))])
    /\ UNCHANGED <<startVars, workVars, uiVars>>

(***************************************************************************)
(* Strings                                                                 *)
(***************************************************************************)
Whitespace == {" ", "\t", "\n", "\r"}

RECURSIVE LStrip(_)
LStrip(s) ==
    IF s = "" THEN ""
    ELSE IF SubSeq(s, 1, 1) \in Whitespace THEN LStrip(SubSeq(s, 2, Len(s)))
    ELSE s

RECURSIVE RStrip(_)
RStrip(s) ==
    IF s = "" THEN ""
    ELSE IF SubSeq(s, Len(s), Len(s)) \in Whitespace THEN RStrip(SubSeq(s, 1, Len(s) - 1))
    ELSE s

\* Variant: the question is taken as it is (if not request.question).
Unstripped(s) == s

\* str.strip()
Strip(s) == RStrip(LStrip(s))

\* sep.join(parts)
RECURSIVE Join(_, _)
Join(sep, parts) ==
    IF parts = <<>> THEN ""
    ELSE IF Len(parts) = 1 THEN parts[1]
    ELSE Join(sep, SubSeq(parts, 1, Len(parts) - 1)) \o sep \o parts[Len(parts)]

(***************************************************************************)
(* POST /chat and run_query (main.py, lines 92-107; agent.py, lines        *)
(* 102-160).  A sync endpoint runs on a thread of the framework's pool,    *)
(* so several chat() calls may be in progress at once; each action below   *)
(* is one step of one worker thread.                                       *)
(***************************************************************************)
Questions == {"", " ", " \t\n", "hi", " a b "}
Snippets  == {"df.shape", "plt.hist(df.Age)"}
Drawing   == {"plt.hist(df.Age)"}       \* the snippets that open a figure
\* The exceptions agent.invoke is taken to raise: faults of the model call, of
\* the tool or of the budget, all of them instances of Exception.
Faults    == {[cls |-> "RateLimitError", msg |-> "Rate limit reached"],
              [cls |-> "APITimeoutError", msg |-> "Request timed out."]}
Outputs   == {None, Some("There were 891 passengers.")}

NoCall == [drew |-> FALSE, ended |-> "none"]

\* chat(): the empty-question check, then the call of run_query.
chat(t, q) ==
    /\ spc = "serving"
    /\ pc[t] = "idle"
    /\ question' = [question EXCEPT ![t] = Some(q)]
    /\ IF Strip(q) = ""
       THEN /\ resp' = [resp EXCEPT ![t] =
                   Some([status |-> 400, detail |-> Some("Question cannot be empty"),
                         text |-> None, image |-> None])]
            /\ pc' = [pc EXCEPT ![t] = "responded"]
            /\ UNCHANGED rqCalls
       ELSE /\ rqCalls' = [rqCalls EXCEPT ![t] = @ + 1]
            /\ pc' = [pc EXCEPT ![t] = "rq_close"]
            /\ UNCHANGED resp
    /\ UNCHANGED <<steps, executed, drew, fault, result, response, capture, figs, lastCall>>
    /\ UNCHANGED <<startVars, healthResp, uiVars>>

\* Variant: run_query without its initial plt.close('all').
RQ_NoCloseAll(t) ==
    /\ pc[t] = "rq_close"
    /\ pc' = [pc EXCEPT ![t] = "rq_invoke"]
    /\ UNCHANGED <<question, steps, executed, drew, fault, result, response, capture, rqCalls, resp, figs, lastCall>>
    /\ UNCHANGED <<startVars, healthResp, uiVars>>

\* run_query line 121: plt.close('all')
RQ_CloseAll(t) ==
    /\ pc[t] = "rq_close"
    /\ figs' = <<>>
    /\ pc' = [pc EXCEPT ![t] = "rq_invoke"]
    /\ UNCHANGED <<question, steps, executed, drew, fault, result, response, capture, rqCalls, resp, lastCall>>
    /\ UNCHANGED <<startVars, healthResp, uiVars>>

\* One step of the ReAct loop inside agent.invoke: the agent runs a snippet
\* with its one tool, python_repl_ast (the snippet may open a figure), or the
\* model's output cannot be parsed and the step is recorded under the
\* pseudo-tool _Exception (handle_parsing_errors=True).
AgentStep(t) ==
    /\ pc[t] = "rq_invoke"
    /\ Len(steps[t]) < MaxSteps
    /\ \/ \E s \in Snippets :
            /\ steps' = [steps EXCEPT ![t] =
                   Append(@, [tool |-> "python_repl_ast", tool_input |-> s])]
            /\ executed' = [executed EXCEPT ![t] = Append(@, s)]
            /\ IF s \in Drawing
               THEN /\ Len(figs) < MaxFigs
                    /\ figs' = Append(figs, t)
                    /\ drew' = [drew EXCEPT ![t] = TRUE]
               ELSE UNCHANGED <<figs, drew>>
       \/ /\ steps' = [steps EXCEPT ![t] =
                   Append(@, [tool |-> "_Exception",
                              tool_input |-> "Invalid or incomplete response"])]
          /\ UNCHANGED <<executed, figs, drew>>
    /\ UNCHANGED <<pc, question, fault, result, response, capture, rqCalls, resp, lastCall>>
    /\ UNCHANGED <<startVars, healthResp, uiVars>>

\* agent.invoke returns its result dict.
AgentReturn(t) ==
    /\ pc[t] = "rq_invoke"
    /\ \E out \in Outputs :
          result' = [result EXCEPT ![t] =
              Some([output |-> out, intermediate_steps |-> steps[t]])]
    /\ pc' = [pc EXCEPT ![t] = "rq_extract"]
    /\ UNCHANGED <<question, steps, executed, drew, fault, response, capture, rqCalls, resp, figs, lastCall>>
    /\ UNCHANGED <<startVars, healthResp, uiVars>>

\* agent.invoke raises (model call, tool execution, budget, parsing).
AgentRaise(t) ==
    /\ pc[t] = "rq_invoke"
    /\ \E e \in Faults : fault' = [fault EXCEPT ![t] = Some(e)]
    /\ pc' = [pc EXCEPT ![t] = "rq_except"]
    /\ UNCHANGED <<question, steps, executed, drew, result, response, capture, rqCalls, resp, figs, lastCall>>
    /\ UNCHANGED <<startVars, healthResp, uiVars>>

\* Variant: the tool_input of every step, whatever its tool.
AllInputs(isteps) == [i \in 1..Len(isteps) |-> isteps[i].tool_input]

\* The tool_input of every step taken with python_repl_ast, in order
\* (agent.py, lines 129-132).
RECURSIVE CodeBlocks(_)
CodeBlocks(isteps) ==
    IF isteps = <<>> THEN <<>>
    ELSE (IF Head(isteps).tool = "python_repl_ast"
          THEN <<Head(isteps).tool_input>> ELSE <<>>) \o CodeBlocks(Tail(isteps))

\* "\n".join(code_blocks) if code_blocks else None
GeneratedCode(code_blocks) ==
    IF code_blocks # <<>> THEN Some(Join("\n", code_blocks)) ELSE None

\* result.get("output", "I couldn't generate an answer.")
AnswerText(res) ==
    IF res.output # None THEN Val(res.output) ELSE "I couldn't generate an answer."

\* The text of the result returned from the except branch (agent.py, line 138).
ApologyText(e) ==
    "I encountered an issue processing that query. Please try rephrasing. (Error: "
        \o e \o ")"

\* Lines 126-134 and 144: the answer text, the generated code, and the
\* response dict with no image yet.
RQ_Extract(t) ==
    /\ pc[t] = "rq_extract"
    /\ response' = [response EXCEPT ![t] =
           Some([text  |-> AnswerText(Val(result[t])),
                 image |-> None,
                 code  |-> GeneratedCode(CodeBlocks(Val(result[t]).intermediate_steps))])]
    /\ pc' = [pc EXCEPT ![t] = "rq_figcheck"]
    /\ UNCHANGED <<question, steps, executed, drew, fault, result, capture, rqCalls, resp, figs, lastCall>>
    /\ UNCHANGED <<startVars, healthResp, uiVars>>

\* The classes a fault of class c is an instance of.
FaultBases(c) == {c, "Exception", "BaseException"}

\* Variant: a clause for the timeout alone (except APITimeoutError as e).
CatchesTimeoutOnly(c) == "APITimeoutError" \in FaultBases(c)

\* Line 136: whether "except Exception as e" handles a fault of class c.
Catches(c) == "Exception" \in FaultBases(c)

\* Lines 136-141: a fault the clause handles makes run_query return the
\* apology; any other leaves run_query as a raised exception.
RQ_Except(t) ==
    /\ pc[t] = "rq_except"
    /\ IF Catches(Val(fault[t]).cls)
       THEN /\ response' = [response EXCEPT ![t] =
                   Some([text |-> ApologyText(Val(fault[t]).msg),
                         image |-> None, code |-> None])]
            /\ pc' = [pc EXCEPT ![t] = "rq_done"]
       ELSE /\ pc' = [pc EXCEPT ![t] = "rq_propagated"]
            /\ UNCHANGED response
    /\ UNCHANGED <<question, steps, executed, drew, fault, result, capture, rqCalls, resp, figs, lastCall>>
    /\ UNCHANGED <<startVars, healthResp, uiVars>>

\* Line 146: if plt.get_fignums()
RQ_FigCheck(t) ==
    /\ pc[t] = "rq_figcheck"
    /\ pc' = [pc EXCEPT ![t] = IF figs # <<>> THEN "rq_capture" ELSE "rq_done"]
    /\ UNCHANGED <<question, steps, executed, drew, fault, result, response, capture, rqCalls, resp, figs, lastCall>>
    /\ UNCHANGED <<startVars, healthResp, uiVars>>

\* The encoded PNG of a figure; a figure is known by the worker whose run
\* opened it.
Image(fig) == <<"png", fig>>

\* Lines 147-156: plt.gcf() is the most recently opened figure (a new, empty
\* one when none is open any more); rendering and encoding it either
\* succeeds and sets response["image"], or raises and is passed over.
RQ_Capture(t) ==
    /\ pc[t] = "rq_capture"
    /\ figs' = IF figs = <<>> THEN <<t>> ELSE figs
    /\ \/ /\ response' = [response EXCEPT ![t] =
                 Some([Val(@) EXCEPT !.image = Some(Image(figs'[Len(figs')]))])]
          /\ capture' = [capture EXCEPT ![t] = "ok"]
       \/ /\ capture' = [capture EXCEPT ![t] = "failed"]
          /\ UNCHANGED response
    /\ pc' = [pc EXCEPT ![t] = "rq_release"]
    /\ UNCHANGED <<question, steps, executed, drew, fault, result, rqCalls, resp, lastCall>>
    /\ UNCHANGED <<startVars, healthResp, uiVars>>

\* Lines 157-158: finally: plt.close('all')
RQ_Release(t) ==
    /\ pc[t] = "rq_release"
    /\ figs' = <<>>
    /\ pc' = [pc EXCEPT ![t] = "rq_done"]
    /\ UNCHANGED <<question, steps, executed, drew, fault, result, response, capture, rqCalls, resp, lastCall>>
    /\ UNCHANGED <<startVars, healthResp, uiVars>>

\* main.py line 107: run_query has returned; the 200 response carries its
\* text and image (not its code).  The locals of the call are gone.
Respond(t) ==
    /\ pc[t] = "rq_done"
    /\ resp' = [resp EXCEPT ![t] =
           Some([status |-> 200, detail |-> None,
                 text |-> Some(Val(response[t]).text),
                 image |-> Val(response[t]).image])]
    /\ pc' = [pc EXCEPT ![t] = "responded"]
    /\ steps'    = [steps EXCEPT ![t] = <<>>]
    /\ executed' = [executed EXCEPT ![t] = <<>>]
    /\ drew'     = [drew EXCEPT ![t] = FALSE]
    /\ fault'    = [fault EXCEPT ![t] = None]
    /\ result'   = [result EXCEPT ![t] = None]
    /\ response' = [response EXCEPT ![t] = None]
    /\ capture'  = [capture EXCEPT ![t] = "none"]
    /\ UNCHANGED <<question, rqCalls, figs>>
    /\ UNCHANGED <<startVars, healthResp, uiVars>>

ChatRespond(t) == Respond(t) /\ UNCHANGED lastCall

\* The response has been sent; the worker thread is free again.
Complete(t) ==
    /\ pc[t] = "responded"
    /\ pc' = [pc EXCEPT ![t] = "idle"]
    /\ question' = [question EXCEPT ![t] = None]
    /\ rqCalls'  = [rqCalls EXCEPT ![t] = 0]
    /\ resp'     = [resp EXCEPT ![t] = None]
    /\ UNCHANGED <<steps, executed, drew, fault, result, response, capture, figs, lastCall>>
    /\ UNCHANGED <<startVars, healthResp, uiVars>>

\* How the run_query call of worker t ended.
Ended(t) ==
    IF fault[t] # None THEN "agent_failure"
    ELSE IF capture[t] = "failed" THEN "capture_failure"
    ELSE "normal"

\* The same, for a client that sends its requests one after the other and
\* notes how each call went.
ChatRespondSerial(t) ==
    /\ Respond(t)
    /\ lastCall' = [drew |-> drew[t], ended |-> Ended(t)]

\* A client that sends a request only when the one before has been answered.
NoneInHand == \A u \in Workers : pc[u] = "idle"

chatSerial(t, q) == NoneInHand /\ chat(t, q)

(***************************************************************************)
(* Remote-Mode chat page (frontend/app.py).  One run of the script for a   *)
(* submitted question is one action.  The messages' leading warning sign   *)
(* and the code fence's backquotes are left out of the texts below.        *)
(***************************************************************************)
Prompts == {"How many passengers?", "Show a histogram of ages"}

\* What requests.post(...) can end in: a reply with a status and a body, or
\* an exception of some class.
NotJson == [json |-> FALSE, text |-> None, image |-> None, code |-> None]

Bodies ==
    {NotJson} \cup
    [json : {TRUE},
     text : {None, Some("There were 891 passengers.")},
     image : {None, Some("iVBORw0KGgo="), Some("%%%")},
     code : {None, Some("df.shape")}]

Statuses == {200, 400, 500}

ExcClasses == {"ConnectionError", "ConnectTimeout", "ReadTimeout", "TooManyRedirects"}

Outcomes ==
    [kind : {"reply"}, status : Statuses, body : Bodies, exc : {"-"}] \cup
    [kind : {"raised"}, status : {0}, body : {NotJson}, exc : ExcClasses]

\* The classes an exception of class c is an instance of (requests.exceptions:
\* ConnectTimeout derives from both ConnectionError and Timeout).
Bases(c) ==
    CASE c = "ConnectionError"  -> {"ConnectionError", "RequestException", "Exception"}
      [] c = "ConnectTimeout"   -> {"ConnectTimeout", "ConnectionError", "Timeout",
                                    "RequestException", "Exception"}
      [] c = "ReadTimeout"      -> {"ReadTimeout", "Timeout", "RequestException", "Exception"}
      [] c = "TooManyRedirects" -> {"TooManyRedirects", "RequestException", "Exception"}
      [] c = "JSONDecodeError"  -> {"JSONDecodeError", "RequestException", "Exception"}
      [] c = "binascii.Error"   -> {"binascii.Error", "ValueError", "Exception"}

\* str(e)
ExcText(c) ==
    CASE c = "ConnectionError"  -> "Connection refused"
      [] c = "ConnectTimeout"   -> "Connection to localhost timed out"
      [] c = "ReadTimeout"      -> "Read timed out"
      [] c = "TooManyRedirects" -> "Exceeded 30 redirects"
      [] c = "JSONDecodeError"  -> "Expecting value"
      [] c = "binascii.Error"   -> "Incorrect padding"

\* Variant: the Timeout clause written first.
TimeoutClauseFirst == <<"Timeout", "ConnectionError", "Exception">>

\* The except clauses of lines 141-159, in the order they are tried.
ExceptClauses == <<"ConnectionError", "Timeout", "Exception">>

\* The first clause the exception is an instance of.
Handler(c) ==
    LET hits == SelectSeq(ExceptClauses, LAMBDA k : k \in Bases(c))
    IN  hits[1]

ConnectText ==
    "Cannot connect to the backend. Make sure the FastAPI server is running:\n\n"
        \o "bash\nuvicorn backend.main:app --port 8000\n"
TimeoutText == "Request timed out. The query may be too complex. Try a simpler question."
StatusText(code) == "Backend error (status " \o ToString(code) \o ")"
UnexpectedText(c) == "Unexpected error: " \o ExcText(c)

Turn(role, content, image, code) ==
    [role |-> role, content |-> content, image |-> image, code |-> code]

\* The turn recorded by the except clause that handles an exception of class c.
ErrorTurn(c) ==
    LET h == Handler(c)
    IN  Turn("assistant",
             CASE h = "ConnectionError" -> ConnectText
               [] h = "Timeout"         -> TimeoutText
               [] h = "Exception"       -> UnexpectedText(c),
             None, None)

\* base64.b64decode accepts the string
ValidBase64(b) == b # "%%%"

\* Variant: the 200 branch records its turn before it decodes the image, so
\* that a decoding failure records a second turn.
TurnsRecordedEarly(o) ==
    IF o.kind = "raised" THEN <<ErrorTurn(o.exc)>>
    ELSE IF o.status # 200 THEN <<Turn("assistant", StatusText(o.status), None, None)>>
    ELSE IF ~o.body.json THEN <<ErrorTurn("JSONDecodeError")>>
    ELSE <<Turn("assistant",
                IF o.body.text # None THEN Val(o.body.text) ELSE "No response received.",
                o.body.image, o.body.code)>>
         \o (IF o.body.image # None /\ ~ValidBase64(Val(o.body.image))
             THEN <<ErrorTurn("binascii.Error")>> ELSE <<>>)

\* The assistant turns lines 103-165 append for an outcome of the POST.
AssistantTurns(o) ==
    IF o.kind = "raised" THEN <<ErrorTurn(o.exc)>>
    ELSE IF o.status # 200 THEN <<Turn("assistant", StatusText(o.status), None, None)>>
    ELSE IF ~o.body.json THEN <<ErrorTurn("JSONDecodeError")>>
    ELSE IF o.body.image # None /\ ~ValidBase64(Val(o.body.image))
         THEN <<ErrorTurn("binascii.Error")>>
    ELSE <<Turn("assistant",
                IF o.body.text # None THEN Val(o.body.text) ELSE "No response received.",
                o.body.image, o.body.code)>>

\* Lines 94-165: a question is submitted.
Submit ==
    /\ Len(messages) < 2 * MaxTurns
    /\ \E prompt \in Prompts, o \in Outcomes :
          /\ messages' = Append(messages, Turn("user", prompt, None, None))
                             \o AssistantTurns(o)
          /\ lastOutcome' = Some(o)
    /\ UNCHANGED <<startVars, healthResp, workVars>>

\* Lines 193-195: the Clear Chat button.
ClearChat ==
    /\ messages' = <<>>
    /\ lastOutcome' = None
    /\ UNCHANGED <<startVars, healthResp, workVars>>

(***************************************************************************)
(* Initial states and specifications                                       *)
(***************************************************************************)
\* The synthetic table of the specification's examples, and a table with no
\* port of embarkation at all.
SampleTable ==
    [rows |-> << [Age |-> Some(20), Embarked |-> Some("S")],
                 [Age |-> None,     Embarked |-> None],
                 [Age |-> Some(40), Embarked |-> Some("S")] >>,
     cabin |-> TRUE]

NoPortTable ==
    [rows |-> << [Age |-> Some(20), Embarked |-> None] >>, cabin |-> TRUE]

FullLog == <<"key", "load", "age", "embarked", "cabin", "agent">>

InitWorkers ==
    /\ pc = [t \in Workers |-> "idle"]
    /\ question = [t \in Workers |-> None]
    /\ steps = [t \in Workers |-> <<>>]
    /\ executed = [t \in Workers |-> <<>>]
    /\ drew = [t \in Workers |-> FALSE]
    /\ fault = [t \in Workers |-> None]
    /\ result = [t \in Workers |-> None]
    /\ response = [t \in Workers |-> None]
    /\ capture = [t \in Workers |-> "none"]
    /\ rqCalls = [t \in Workers |-> 0]
    /\ resp = [t \in Workers |-> None]
    /\ figs = <<>>
    /\ lastCall = NoCall
    /\ healthResp = None

InitUI ==
    /\ messages = <<>>
    /\ lastOutcome = None

\* The process has just been launched.
Init ==
    /\ groqKey \in {None, Some(""), Some("gsk_live")}
    /\ csvFile \in {None, Some(SampleTable), Some(NoPortTable)}
    /\ spc = "check_key"
    /\ startLog = <<>>
    /\ df = None
    /\ agent_executor = None
    /\ InitWorkers
    /\ InitUI

\* The backend has started and serves (the chat page's view of it).
InitServing ==
    /\ groqKey = Some("gsk_live")
    /\ csvFile = Some(SampleTable)
    /\ spc = "serving"
    /\ startLog = FullLog
    /\ df = Some(DroppedCabin(FilledEmbarked(FilledAge(SampleTable))))
    /\ agent_executor = Some([df |-> Val(df), max_iterations |-> 15])
    /\ InitWorkers
    /\ InitUI

\* The key has been found; any small table may be in the file.
InitClean ==
    /\ groqKey = Some("gsk_live")
    /\ csvFile \in {None} \cup {Some(tb) : tb \in TablesUpTo(MaxRows)}
    /\ spc = "read_csv"
    /\ startLog = <<"key">>
    /\ df = None
    /\ agent_executor = None
    /\ InitWorkers
    /\ InitUI

RunQuery(t) ==
    \/ RQ_CloseAll(t)
    \/ AgentStep(t)
    \/ AgentReturn(t)
    \/ AgentRaise(t)
    \/ RQ_Extract(t)
    \/ RQ_Except(t)
    \/ RQ_FigCheck(t)
    \/ RQ_Capture(t)
    \/ RQ_Release(t)

Next ==
    \/ CheckKey
    \/ ReadCsv
    \/ FillAge
    \/ FillEmbarked
    \/ DropCabin
    \/ CreateAgent
    \/ health_check
    \/ \E t \in Workers : \E q \in Questions : chat(t, q)
    \/ \E t \in Workers : RunQuery(t)
    \/ \E t \in Workers : ChatRespond(t)
    \/ \E t \in Workers : Complete(t)

Spec == Init /\ [][Next]_vars

NextSerial ==
    \/ CheckKey
    \/ ReadCsv
    \/ FillAge
    \/ FillEmbarked
    \/ DropCabin
    \/ CreateAgent
    \/ health_check
    \/ \E t \in Workers : \E q \in Questions : chatSerial(t, q)
    \/ \E t \in Workers : RunQuery(t)
    \/ \E t \in Workers : ChatRespondSerial(t)
    \/ \E t \in Workers : Complete(t)

SpecSerial == Init /\ [][NextSerial]_vars

NextClean == ReadCsv \/ FillAge \/ FillEmbarked \/ DropCabin

SpecClean == InitClean /\ [][NextClean]_vars

NextUI == Submit \/ ClearChat

SpecUI == InitServing /\ [][NextUI]_vars

(***************************************************************************)
(* Properties                                                              *)
(***************************************************************************)

\* C1: when the reasoning loop raises a fault, run_query does not propagate
\* it: the call goes on to return a result with no image, no code, and the
\* fixed apology text embedding the fault's message.
C1_FaultContained ==
    \A t \in Workers :
        fault[t] # None =>
            /\ pc[t] \in {"rq_except", "rq_done"}
            /\ pc[t] = "rq_done" =>
                  response[t] = Some(
                      [text |-> "I encountered an issue processing that query. "
                                    \o "Please try rephrasing. (Error: "
                                    \o Val(fault[t]).msg \o ")",
                       image |-> None,
                       code |-> None])

\* A call whose agent drew a figure and then failed has returned.
C1_Witness ==
    \E t \in Workers :
        /\ pc[t] = "rq_done"
        /\ fault[t] # None /\ Val(fault[t]).cls = "RateLimitError"
        /\ drew[t]

\* C2: of two consecutive calls, when the first one's run drew a chart and
\* the second one's drew none, the second call returns no image, however the
\* first call ended.
C2_NoStaleImage ==
    \A t \in Workers :
        (pc[t] = "rq_done" /\ lastCall.drew /\ ~drew[t]) =>
            Val(response[t]).image = None

\* The first call failed after drawing; the second, which drew nothing,
\* has returned a normal answer.
C2_Witness ==
    \E t \in Workers :
        /\ pc[t] = "rq_done"
        /\ lastCall = [drew |-> TRUE, ended |-> "agent_failure"]
        /\ ~drew[t]
        /\ fault[t] = None
        /\ executed[t] # <<>>

\* Worker t is inside run_query, past its initial plt.close('all') and not yet
\* past its last statement that touches the figures.
InFigureSection(t) ==
    pc[t] \in {"rq_invoke", "rq_extract", "rq_except", "rq_figcheck",
               "rq_capture", "rq_release"}

\* C3: at most one run_query call is between its initial figure reset and
\* its final figure release.
C3_OneCallAtATime ==
    Cardinality({t \in Workers : InFigureSection(t)}) <= 1

OnlyWhitespace(q) ==
    \A i \in 1..Len(q) : SubSeq(q, i, i) \in {" ", "\t", "\n", "\r"}

\* C4: a question that is empty or only whitespace is answered 400 "Question
\* cannot be empty" and run_query is never invoked for it; for any other
\* question run_query is invoked exactly once and the answer is 200.
C4_EmptyQuestionRejected ==
    \A t \in Workers :
        question[t] # None =>
            IF OnlyWhitespace(Val(question[t]))
            THEN /\ rqCalls[t] = 0
                 /\ pc[t] = "responded"
                 /\ resp[t] = Some([status |-> 400,
                                    detail |-> Some("Question cannot be empty"),
                                    text |-> None, image |-> None])
            ELSE /\ rqCalls[t] = 1
                 /\ pc[t] = "responded" => Val(resp[t]).status = 200

\* A request with a real question has been answered after a run of the agent,
\* and then one with a whitespace question has been refused.
C4_Witness ==
    /\ lastCall.ended = "normal"
    /\ \E t \in Workers :
          /\ pc[t] = "responded"
          /\ question[t] = Some(" \t\n")
          /\ Val(resp[t]).status = 400

\* The sources, each but the last followed by a newline.
RECURSIVE Lines(_)
Lines(srcs) ==
    IF Len(srcs) = 1 THEN srcs[1] ELSE srcs[1] \o "\n" \o Lines(Tail(srcs))

\* C5: after a successful agent run the code field is the source of every
\* snippet the agent executed, in execution order, joined by single newlines,
\* and is absent when nothing was executed.
C5_GeneratedCode ==
    \A t \in Workers :
        (pc[t] \in {"rq_figcheck", "rq_capture", "rq_release", "rq_done"}
            /\ fault[t] = None) =>
            Val(response[t]).code =
                IF executed[t] = <<>> THEN None ELSE Some(Lines(executed[t]))

\* A run that executed two snippets has returned.
C5_Witness ==
    \E t \in Workers :
        /\ pc[t] = "rq_done"
        /\ executed[t] = <<"plt.hist(df.Age)", "df.shape">>
        /\ Val(response[t]).code = Some("plt.hist(df.Age)\ndf.shape")

\* The exceptions that are client-side timeouts, and those that are
\* connection failures.
TimeoutClasses    == {"ConnectTimeout", "ReadTimeout"}
ConnectionClasses == {"ConnectionError", "ConnectTimeout"}

LastTurn == messages[Len(messages)]

\* C6 (as claimed): a POST that ends in a client-side timeout records the
\* "too complex" text, one that ends in a connection failure records the
\* text about starting the backend, and a non-200 reply records the text
\* naming its status code.
C6_AsClaimed ==
    lastOutcome # None =>
        LET o == Val(lastOutcome)
        IN  /\ LastTurn.role = "assistant"
            /\ (o.kind = "raised" /\ o.exc \in TimeoutClasses) =>
                   LastTurn.content = TimeoutText
            /\ (o.kind = "raised" /\ o.exc \in ConnectionClasses) =>
                   LastTurn.content = ConnectText
            /\ (o.kind = "reply" /\ o.status # 200) =>
                   LastTurn.content = StatusText(o.status)

\* C6 (amended): a timeout that is not also a connection failure (a read
\* timeout) records the "too complex" text; a connection failure, a connect
\* timeout included, records the text about starting the backend; a non-200
\* reply records the text naming its status code; and none of the three
\* texts is recorded for an outcome of another kind.
C6_ErrorTurns ==
    lastOutcome # None =>
        LET o == Val(lastOutcome)
        IN  /\ LastTurn.role = "assistant"
            /\ (o.kind = "raised" /\ o.exc \in TimeoutClasses \ ConnectionClasses)
                   <=> LastTurn.content = TimeoutText
            /\ (o.kind = "raised" /\ o.exc \in ConnectionClasses)
                   <=> LastTurn.content = ConnectText
            /\ \A s \in Statuses \ {200} :
                   (o.kind = "reply" /\ o.status = s)
                       <=> LastTurn.content = "Backend error (status " \o ToString(s) \o ")"

\* The last POST ended in a connect timeout.
C6_Witness ==
    /\ lastOutcome # None
    /\ Val(lastOutcome).exc = "ConnectTimeout"
    /\ LastTurn.content = ConnectText
    /\ Len(messages) = 4
    /\ messages[2].content = TimeoutText

\* A request has been or is being handled.
Handling == healthResp # None \/ \E t \in Workers : pc[t] # "idle"

\* The state of a process that serves: every start-up step done, in order.
C7_Started ==
    (Handling \/ spc = "serving") =>
        /\ spc = "serving"
        /\ startLog = <<"key", "load", "age", "embarked", "cabin", "agent">>
        /\ groqKey # None /\ Val(groqKey) # ""
        /\ csvFile # None
        /\ df # None /\ ~Val(df).cabin
        /\ \A i \in 1..Len(Val(df).rows) : Val(df).rows[i].Embarked # None
        /\ agent_executor # None

\* C7: no /health or /chat request is handled unless the credential was
\* found, then the dataset loaded and cleaned, then the agent created; and a
\* process whose start-up failed never serves.
C7_StartupBeforeServing ==
    /\ []C7_Started
    /\ [][spc = "failed" => spc' = "failed"]_vars

\* The started service has answered a /health and a /chat request.
C7_Witness ==
    /\ spc = "serving"
    /\ healthResp # None
    /\ \E t \in Workers : pc[t] = "responded" /\ Val(resp[t]).status = 200

\* Preprocessing is over; the table as it was loaded, and its two columns.
Cleaned == spc = "create_agent"
Loaded  == Val(csvFile).rows
Ages    == Column(Loaded, "Age")
Ports   == Column(Loaded, "Embarked")

\* v is the k-th smallest of the present cells of col.
KthSmallest(col, k, v) ==
    /\ Cardinality({i \in 1..Len(col) : col[i] # None /\ Val(col[i]) < v}) < k
    /\ Cardinality({i \in 1..Len(col) : col[i] # None /\ Val(col[i]) <= v}) >= k

IsMedian(col, m) ==
    LET n == Cardinality({i \in 1..Len(col) : col[i] # None})
    IN  \E lo, hi \in AgeValues :
            /\ KthSmallest(col, (n + 1) \div 2, lo)
            /\ KthSmallest(col, n \div 2 + 1, hi)
            /\ 2 * m = lo + hi

\* p is the first, in alphabetical order, of the most frequent present ports.
IsFirstMode(col, p) ==
    /\ \A w \in PortValues : Count(col, p) >= Count(col, w)
    /\ Count(col, p) > 0
    /\ ~\E w \in PortValues :
          Count(col, w) = Count(col, p) /\ <<w, p>> \in {<<"C", "Q">>, <<"C", "S">>, <<"Q", "S">>}

AgesCleaned ==
    \A i \in 1..Len(Loaded) :
        IF Ages[i] # None THEN Val(df).rows[i].Age = Ages[i]
        ELSE /\ Val(df).rows[i].Age # None
             /\ IsMedian(Ages, Val(Val(df).rows[i].Age))

PortsCleaned ==
    \A i \in 1..Len(Loaded) :
        IF Ports[i] # None THEN Val(df).rows[i].Embarked = Ports[i]
        ELSE /\ Val(df).rows[i].Embarked # None
             /\ IsFirstMode(Ports, Val(Val(df).rows[i].Embarked))

\* C8 (as claimed): after preprocessing, no age and no port of embarkation
\* is missing, each missing age was replaced by the median of the present
\* ages, each missing port by the most frequent present port, every present
\* entry is unchanged, and there is no Cabin column.
C8_AsClaimed ==
    Cleaned =>
        /\ Len(Val(df).rows) = Len(Loaded)
        /\ AgesCleaned
        /\ PortsCleaned
        /\ ~Val(df).cabin

\* C8 (amended): the same, the clauses about Age holding when at least one
\* age is present in the loaded table.
C8_Preprocessed ==
    Cleaned =>
        /\ Len(Val(df).rows) = Len(Loaded)
        /\ (\E i \in 1..Len(Loaded) : Ages[i] # None) => AgesCleaned
        /\ PortsCleaned
        /\ ~Val(df).cabin

\* The table with ages 20, missing, 40 has been cleaned: the missing age is
\* now 30, the missing port S.
C8_Witness ==
    /\ Cleaned
    /\ csvFile = Some(SampleTable)
    /\ Val(df).rows[2] = [Age |-> Some(30), Embarked |-> Some("S")]

\* C9: when a run_query call returns, no figure remains open.
C9_NoFigureOnReturn ==
    \A t \in Workers : pc[t] = "rq_done" => figs = <<>>

\* C10: the chat history alternates user turn, assistant turn, starting with
\* a user turn; handling one question appends exactly one user turn and then
\* exactly one assistant turn; clear-chat leaves the history empty.
Alternates(msgs) ==
    /\ Len(msgs) % 2 = 0
    /\ \A i \in 1..Len(msgs) :
          msgs[i].role = IF i % 2 = 1 THEN "user" ELSE "assistant"

====
